---- MODULE Spec2Model ----
(***************************************************************************)
(* ExpiringMap (src/src/ExpiringMap.ts): a Map whose entries expire after  *)
(* a TTL, either eagerly (one setTimeout per set) or lazily (checked on    *)
(* access).                                                                *)
(*                                                                         *)
(* Modelling decisions:                                                    *)
(*  - Date.now() is the variable now; it is read once per public call (a   *)
(*    call runs to completion at one instant).                             *)
(*  - A setTimeout callback may run at any instant at or after its         *)
(*    deadline (the host runs it on a later turn of the event loop), so    *)
(*    the clock may pass a deadline before the callback runs.              *)
(*  - #store is a JavaScript Map: insertion ordered, set on an existing    *)
(*    key keeps its position, iteration is live. It is the sequence of     *)
(*    its entries; the position of a suspended iterator is the number of   *)
(*    entries it has visited, shifted when an entry before it is deleted.  *)
(*  - keys(), values() and entries() run the same loop and differ only in  *)
(*    what they yield, so a suspended generator is its position alone.     *)
(*  - onExpire, when given, is the caller's function: the model appends    *)
(*    its arguments to the log expired, and in ReentrantSpec lets it call  *)
(*    the map back.                                                        *)
(*  - hist is a history variable: for every entry object ever created      *)
(*    (its id is its index) whether it is stored or how it left the store. *)
(*  - ttlMs and the defaultTtlMs of a constructed map are positive          *)
(*    durations, as documented; the constructor is given others as well.   *)
(*  - Spec and IterSpec start from a constructed map whose onExpire, when  *)
(*    given, only records its arguments. ConstructSpec starts before the   *)
(*    constructor has run. ReentrantSpec gives an onExpire that calls      *)
(*    has(key) and, finding the key absent, set(key, value).               *)
(***************************************************************************)
EXTENDS Integers, Sequences, FiniteSets, TLC

\* ---- bounds ----
MaxTime == 3
MaxSets == 2

Keys == {"a", "b"}
Values == {"v1", "v2"}
Ttls == {1, 2}
Undefined == "undefined"

VARIABLES
    construction,   \* new ExpiringMap(options): pending, ready or thrown
    reinserts,      \* TRUE iff the onExpire callback calls set(key, value) back
    lazyEviction,   \* #lazyEviction
    onExpire,       \* TRUE iff an onExpire callback was given
    defaultTtlMs,   \* #defaultTtlMs
    now,            \* Date.now()
    store,          \* #store, in insertion order
    timers,         \* pending setTimeout callbacks
    expired,        \* log of onExpire(key, value) invocations
    hist,           \* history: every entry object created, by id
    iter            \* one suspended keys()/values()/entries() generator

vars == <<construction, reinserts, lazyEviction, onExpire, defaultTtlMs, now, store, timers, expired, hist, iter>>

\* ---- new ExpiringMap(options) ----

\* the options a caller may pass: lazyEviction is optional, onExpire is TRUE
\* iff a callback is given
Options ==
    [defaultTtlMs : {-1, 0} \cup Ttls, lazyEviction : {"omitted", "true", "false"}, onExpire : BOOLEAN]
NoOptions == [defaultTtlMs |-> 0, lazyEviction |-> "omitted", onExpire |-> FALSE]
Ready == [state |-> "ready", options |-> NoOptions]

\* mutant of Constructor: only a negative defaultTtlMs is refused
ConstructorAcceptsZero(options) ==
    IF options.defaultTtlMs < 0
    THEN [thrown |-> TRUE, defaultTtlMs |-> 0, lazyEviction |-> FALSE, onExpire |-> FALSE]
    ELSE [thrown |-> FALSE,
          defaultTtlMs |-> options.defaultTtlMs,
          lazyEviction |-> (options.lazyEviction = "true"),
          onExpire |-> options.onExpire]

\* constructor(options): throws, or assigns the three private fields
Constructor(options) ==
    IF options.defaultTtlMs <= 0
    THEN [thrown |-> TRUE, defaultTtlMs |-> 0, lazyEviction |-> FALSE, onExpire |-> FALSE]
    ELSE [thrown |-> FALSE,
          defaultTtlMs |-> options.defaultTtlMs,
          lazyEviction |-> (options.lazyEviction = "true"),
          onExpire |-> options.onExpire]

\* ---- the Map #store ----

\* position of key k in the Map s, 0 when absent (Map.prototype.get / has)
IndexOf(s, k) ==
    IF \E i \in 1..Len(s) : s[i].key = k
    THEN CHOOSE i \in 1..Len(s) : s[i].key = k
    ELSE 0

RemoveAt(s, p) == SubSeq(s, 1, p - 1) \o SubSeq(s, p + 1, Len(s))

\* the mutable state a call works on
M == [store |-> store, timers |-> timers, expired |-> expired, hist |-> hist, iter |-> iter]

\* history only: how entry id left the store
MarkFate(h, id, fate) == [h EXCEPT ![id] = fate]

\* this.#store.delete(key): a live iterator that has passed the slot moves back by one
MapDelete(m, k) ==
    LET p == IndexOf(m.store, k) IN
    IF p = 0 THEN m
    ELSE [m EXCEPT !.store = RemoveAt(@, p),
                   !.iter.idx = IF p <= @ THEN @ - 1 ELSE @]

\* mutant of MapSet: an existing key keeps its old entry
MapSetKeepsOld(m, e) ==
    LET p == IndexOf(m.store, e.key) IN
    IF p = 0 THEN [m EXCEPT !.store = Append(@, e)]
    ELSE m

\* this.#store.set(key, entry): in place when the key is present, appended otherwise
MapSet(m, e) ==
    LET p == IndexOf(m.store, e.key) IN
    IF p = 0 THEN [m EXCEPT !.store = Append(@, e)]
    ELSE [m EXCEPT !.store[p] = e]

\* mutant of MapClear: the entries are left in place
MapClearKeeps(m) == m

\* this.#store.clear()
MapClear(m) == [m EXCEPT !.store = <<>>, !.iter.idx = 0]

\* clearTimeout(handle)
ClearTimeout(tm, handle) == {t \in tm : t.id # handle}

\* mutant of IsExpired: expiry is reported one tick early
IsExpiredEarly(e) == now + 1 >= e.expiresAt

\* #isExpired(entry)
IsExpired(e) == now >= e.expiresAt

\* mutant of Notify: the callback is passed the key in place of the value
NotifyKeyOnly(m, k, e) ==
    IF onExpire
    THEN [m EXCEPT !.expired = Append(@, [key |-> k, value |-> k, id |-> e.id])]
    ELSE m

\* if (this.#onExpire) this.#onExpire(key, entry.value): the invocation is
\* logged; a callback that calls back (reinserts) asks has(key) and, told
\* false, calls set(key, value), while the map has made fewer than MaxSets
\* entries
RECURSIVE HasCall(_, _)
RECURSIVE SetCall(_, _, _, _, _)
Notify(m, k, e) ==
    IF ~onExpire THEN m
    ELSE LET m1 == [m EXCEPT !.expired = Append(@, [key |-> k, value |-> e.value, id |-> e.id])]
         IN IF reinserts /\ Len(m1.hist) < MaxSets
            THEN LET r == HasCall(m1, k)
                 IN IF r.result THEN r.m ELSE SetCall(r.m, k, e.value, FALSE, defaultTtlMs)
            ELSE m1

\* mutant of DeleteCall: delete() reports the removal to onExpire
DeleteCallNotifies(m, k, fate) ==
    LET p == IndexOf(m.store, k) IN
    IF p = 0 THEN [m |-> m, removed |-> FALSE]
    ELSE LET e == m.store[p]
             m1 == IF e.timeout # 0
                   THEN [m EXCEPT !.timers = ClearTimeout(@, e.timeout)]
                   ELSE m
             m2 == MapDelete(m1, k)
         IN [m |-> Notify([m2 EXCEPT !.hist = MarkFate(@, e.id, fate)], k, e), removed |-> TRUE]

\* delete(key): returns [m, removed]; fate is what the history records for the entry
DeleteCall(m, k, fate) ==
    LET p == IndexOf(m.store, k) IN
    IF p = 0 THEN [m |-> m, removed |-> FALSE]
    ELSE LET e == m.store[p]
             m1 == IF e.timeout # 0
                   THEN [m EXCEPT !.timers = ClearTimeout(@, e.timeout)]
                   ELSE m
             m2 == MapDelete(m1, k)
         IN [m |-> [m2 EXCEPT !.hist = MarkFate(@, e.id, fate)], removed |-> TRUE]

\* mutant of HasCall: has() evicts an expired entry without telling onExpire
HasCallSilent(m, k) ==
    LET p == IndexOf(m.store, k) IN
    IF p = 0 THEN [m |-> m, result |-> FALSE]
    ELSE LET e == m.store[p] IN
         IF lazyEviction /\ IsExpired(e)
         THEN [m |-> DeleteCall(m, k, "lazy").m, result |-> FALSE]
         ELSE [m |-> m, result |-> TRUE]

\* has(key): returns [m, result]
HasCall(m, k) ==
    LET p == IndexOf(m.store, k) IN
    IF p = 0 THEN [m |-> m, result |-> FALSE]
    ELSE LET e == m.store[p] IN
         IF lazyEviction /\ IsExpired(e)
         THEN [m |-> Notify(DeleteCall(m, k, "lazy").m, k, e), result |-> FALSE]
         ELSE [m |-> m, result |-> TRUE]

\* mutant of GetCall: the expiry check is made in EAGER mode as well
GetCallChecksClock(m, k) ==
    LET p == IndexOf(m.store, k) IN
    IF p = 0 THEN [m |-> m, result |-> Undefined]
    ELSE LET e == m.store[p] IN
         IF IsExpired(e)
         THEN [m |-> Notify(DeleteCall(m, k, "lazy").m, k, e), result |-> Undefined]
         ELSE [m |-> m, result |-> e.value]

\* get(key): returns [m, result]
GetCall(m, k) ==
    LET p == IndexOf(m.store, k) IN
    IF p = 0 THEN [m |-> m, result |-> Undefined]
    ELSE LET e == m.store[p] IN
         IF lazyEviction /\ IsExpired(e)
         THEN [m |-> Notify(DeleteCall(m, k, "lazy").m, k, e), result |-> Undefined]
         ELSE [m |-> m, result |-> e.value]

\* mutant of SetCall: in LAZY mode the old entry is looked up with has() first,
\* so an expired one is evicted as expired
SetCallObservesOld(m, k, v, given, ttlMs) ==
    LET ttl == IF given THEN ttlMs ELSE defaultTtlMs
        expiresAt == now + ttl
        id == Len(m.hist) + 1
        old == IndexOf(m.store, k)
        h == Append(m.hist, "stored")
        m0 == [m EXCEPT !.hist = h]
    IN IF lazyEviction
       THEN MapSet(DeleteCall(HasCall(m0, k).m, k, "overwritten").m,
                   [key |-> k, value |-> v, expiresAt |-> expiresAt, timeout |-> 0, id |-> id])
       ELSE LET m1 == [m0 EXCEPT !.timers = @ \cup {[id |-> id, key |-> k, fireAt |-> now + ttl]},
                                 !.hist = IF old = 0 THEN @
                                          ELSE MarkFate(@, m.store[old].id, "overwritten")]
            IN MapSet(m1, [key |-> k, value |-> v, expiresAt |-> expiresAt, timeout |-> id, id |-> id])

\* set(key, value, ttlMs) of a map whose #lazyEviction is lazy: given = FALSE
\* models an omitted ttlMs
SetCallIn(lazy, m, k, v, given, ttlMs) ==
    LET ttl == IF given THEN ttlMs ELSE defaultTtlMs
        expiresAt == now + ttl
        id == Len(m.hist) + 1
        old == IndexOf(m.store, k)
        h == Append(m.hist, "stored")
        m0 == [m EXCEPT !.hist = h]
    IN IF lazy
       THEN MapSet(DeleteCall(m0, k, "overwritten").m,
                   [key |-> k, value |-> v, expiresAt |-> expiresAt, timeout |-> 0, id |-> id])
       ELSE LET m1 == [m0 EXCEPT !.timers = @ \cup {[id |-> id, key |-> k, fireAt |-> now + ttl]},
                                 !.hist = IF old = 0 THEN @
                                          ELSE MarkFate(@, m.store[old].id, "overwritten")]
            IN MapSet(m1, [key |-> k, value |-> v, expiresAt |-> expiresAt, timeout |-> id, id |-> id])

\* set(key, value, ttlMs) of this map
SetCall(m, k, v, given, ttlMs) == SetCallIn(lazyEviction, m, k, v, given, ttlMs)

\* mutant of TimeoutCall: onExpire is invoked before the entry is removed
TimeoutCallNotifiesFirst(m, t) ==
    LET p == IndexOf(m.store, t.key) IN
    IF p = 0 THEN m
    ELSE LET e == m.store[p]
             m1 == Notify(m, t.key, e)
         IN [MapDelete(m1, t.key) EXCEPT !.hist = MarkFate(@, e.id, "timer")]

\* mutant of TimeoutCall: the callback notifies even when the entry is gone
TimeoutCallUnguarded(m, t) ==
    LET p == IndexOf(m.store, t.key) IN
    IF p = 0
    THEN [m EXCEPT !.expired = Append(@, [key |-> t.key, value |-> Undefined, id |-> t.id])]
    ELSE LET e == m.store[p]
             m1 == MapDelete(m, t.key)
         IN Notify([m1 EXCEPT !.hist = MarkFate(@, e.id, "timer")], t.key, e)

\* the setTimeout callback of set(), run for timer t
TimeoutCall(m, t) ==
    LET p == IndexOf(m.store, t.key) IN
    IF p = 0 THEN m
    ELSE LET e == m.store[p]
             m1 == MapDelete(m, t.key)
         IN Notify([m1 EXCEPT !.hist = MarkFate(@, e.id, "timer")], t.key, e)

\* clear()
RECURSIVE ClearTimers(_, _)
ClearTimers(m, i) ==
    IF i > Len(m.store) THEN m
    ELSE LET e == m.store[i]
             m1 == IF e.timeout # 0
                   THEN [m EXCEPT !.timers = ClearTimeout(@, e.timeout)]
                   ELSE m
         IN ClearTimers([m1 EXCEPT !.hist = MarkFate(@, e.id, "cleared")], i + 1)

ClearCall(m) == MapClear(ClearTimers(m, 1))

\* mutant of Sweep: the slot after an evicted one is skipped
RECURSIVE SweepSkips(_, _)
SweepSkips(m, i) ==
    IF i > Len(m.store) THEN m
    ELSE SweepSkips(HasCall(m, m.store[i].key).m, i + 1)

\* get size(): for (const key of this.#store.keys()) this.has(key)
RECURSIVE Sweep(_, _)
Sweep(m, i) ==
    IF i > Len(m.store) THEN m
    ELSE LET r == HasCall(m, m.store[i].key) IN
         IF r.result THEN Sweep(r.m, i + 1) ELSE Sweep(r.m, i)

SizeCall(m) ==
    IF ~lazyEviction THEN [m |-> m, result |-> Len(m.store)]
    ELSE LET m1 == Sweep(m, 1) IN [m |-> m1, result |-> Len(m1.store)]

\* ---- keys() / values() / entries() ----
Kinds == {"keys", "values", "entries"}
NoIter == [active |-> FALSE, idx |-> 0]

\* what the generator of this kind yields for entry e
Yield(kind, e) ==
    IF kind = "keys" THEN <<e.key>>
    ELSE IF kind = "values" THEN <<e.value>>
    ELSE <<e.key, e.value>>

\* mutant of GenNext: every slot is yielded, has(key) is not consulted
RECURSIVE GenNextUnchecked(_, _, _)
GenNextUnchecked(m, i, kind) ==
    IF i >= Len(m.store)
    THEN [m |-> m, done |-> TRUE, idx |-> i, value |-> <<>>, entry |-> <<>>]
    ELSE LET e == m.store[i + 1]
         IN [m |-> m, done |-> FALSE, idx |-> i + 1, value |-> Yield(kind, e), entry |-> <<e>>]

\* one next() of a generator that has visited i slots of #store: the loop runs
\* to its next yield or to the end. Returns [m, done, idx, value, entry].
RECURSIVE GenNext(_, _, _)
GenNext(m, i, kind) ==
    IF i >= Len(m.store)
    THEN [m |-> m, done |-> TRUE, idx |-> i, value |-> <<>>, entry |-> <<>>]
    ELSE LET e == m.store[i + 1]
             r == HasCall(m, e.key)
         IN IF r.result
            THEN [m |-> r.m, done |-> FALSE, idx |-> i + 1, value |-> Yield(kind, e), entry |-> <<e>>]
            ELSE GenNext(r.m, i, kind)

\* a generator run to completion in one call, as Array.from(map.keys()) or
\* forEach do. Returns [m, out, entries].
RECURSIVE Drain(_, _, _)
Drain(m, i, kind) ==
    LET r == GenNext(m, i, kind) IN
    IF r.done THEN [m |-> r.m, out |-> <<>>, entries |-> <<>>]
    ELSE LET rest == Drain(r.m, r.idx, kind)
         IN [m |-> rest.m, out |-> <<r.value>> \o rest.out, entries |-> r.entry \o rest.entries]

\* next() on the suspended generator, of the given kind
NextCall(m, kind) ==
    LET r == GenNext([m EXCEPT !.iter = NoIter], m.iter.idx, kind)
    IN [m |-> [r.m EXCEPT !.iter = IF r.done THEN NoIter ELSE [active |-> TRUE, idx |-> r.idx]],
        done |-> r.done, value |-> r.value, entry |-> r.entry]

\* forEach(callback): the arguments (value, key) of each callback invocation
ForEachCall(m) ==
    LET r == Drain(m, 0, "entries")
    IN [m |-> r.m, calls |-> [n \in 1..Len(r.out) |-> <<r.out[n][2], r.out[n][1]>>]]

\* ---- steps ----

Commit(m) ==
    /\ store' = m.store
    /\ timers' = m.timers
    /\ expired' = m.expired
    /\ hist' = m.hist
    /\ iter' = m.iter

Init ==
    /\ construction = Ready
    /\ reinserts = FALSE
    /\ lazyEviction \in BOOLEAN
    /\ onExpire \in BOOLEAN
    /\ defaultTtlMs \in Ttls
    /\ now = 0
    /\ store = <<>>
    /\ timers = {}
    /\ expired = <<>>
    /\ hist = <<>>
    /\ iter = NoIter

Set(k, v, given, ttlMs) ==
    /\ Len(hist) < MaxSets
    /\ Commit(SetCall(M, k, v, given, ttlMs))
    /\ UNCHANGED <<construction, reinserts, lazyEviction, onExpire, defaultTtlMs, now>>

Get(k) ==
    LET r == GetCall(M, k) IN
    /\ Commit(r.m)
    /\ UNCHANGED <<construction, reinserts, lazyEviction, onExpire, defaultTtlMs, now>>

Has(k) ==
    LET r == HasCall(M, k) IN
    /\ Commit(r.m)
    /\ UNCHANGED <<construction, reinserts, lazyEviction, onExpire, defaultTtlMs, now>>

Delete(k) ==
    LET r == DeleteCall(M, k, "deleted") IN
    /\ Commit(r.m)
    /\ UNCHANGED <<construction, reinserts, lazyEviction, onExpire, defaultTtlMs, now>>

Clear ==
    /\ Commit(ClearCall(M))
    /\ UNCHANGED <<construction, reinserts, lazyEviction, onExpire, defaultTtlMs, now>>

Size ==
    LET r == SizeCall(M) IN
    /\ Commit(r.m)
    /\ UNCHANGED <<construction, reinserts, lazyEviction, onExpire, defaultTtlMs, now>>

ForEach ==
    /\ Commit(ForEachCall(M).m)
    /\ UNCHANGED <<construction, reinserts, lazyEviction, onExpire, defaultTtlMs, now>>

\* keys(), values() or entries() creates a generator
IterStart ==
    /\ ~iter.active
    /\ iter' = [active |-> TRUE, idx |-> 0]
    /\ UNCHANGED <<construction, reinserts, lazyEviction, onExpire, defaultTtlMs, now, store, timers, expired, hist>>

\* next() on the generator
IterNext(kind) ==
    /\ iter.active
    /\ Commit(NextCall(M, kind).m)
    /\ UNCHANGED <<construction, reinserts, lazyEviction, onExpire, defaultTtlMs, now>>

\* the host's clock advances
Tick ==
    /\ now < MaxTime
    /\ now' = now + 1
    /\ UNCHANGED <<construction, reinserts, lazyEviction, onExpire, defaultTtlMs, store, timers, expired, hist, iter>>

\* the host runs a due setTimeout callback
Fire(t) ==
    /\ t \in timers
    /\ now >= t.fireAt
    /\ Commit(TimeoutCall([M EXCEPT !.timers = @ \ {t}], t))
    /\ UNCHANGED <<construction, reinserts, lazyEviction, onExpire, defaultTtlMs, now>>

Next ==
    \/ \E k \in Keys, v \in Values, given \in BOOLEAN :
         \E ttlMs \in (IF given THEN Ttls ELSE {defaultTtlMs}) : Set(k, v, given, ttlMs)
    \/ \E k \in Keys : Get(k)
    \/ \E k \in Keys : Has(k)
    \/ \E k \in Keys : Delete(k)
    \/ Clear
    \/ Size
    \/ ForEach
    \/ Tick
    \/ \E t \in timers : Fire(t)

Spec == Init /\ [][Next]_vars

\* the same, with a generator that callers advance between other calls
IterNextStep ==
    \/ Next
    \/ IterStart
    \/ \E kind \in Kinds : IterNext(kind)

IterSpec == Init /\ [][IterNextStep]_vars

\* ---- construction ----

\* a caller is about to run new ExpiringMap(options); no field is assigned yet
ConstructInit ==
    /\ construction \in [state : {"pending"}, options : Options]
    /\ reinserts = FALSE
    /\ lazyEviction = FALSE
    /\ onExpire = FALSE
    /\ defaultTtlMs = 0
    /\ now = 0
    /\ store = <<>>
    /\ timers = {}
    /\ expired = <<>>
    /\ hist = <<>>
    /\ iter = NoIter

\* new ExpiringMap(options) runs
Construct ==
    /\ construction.state = "pending"
    /\ LET c == Constructor(construction.options) IN
       /\ construction' = [state |-> IF c.thrown THEN "thrown" ELSE "ready", options |-> NoOptions]
       /\ lazyEviction' = c.lazyEviction
       /\ onExpire' = c.onExpire
       /\ defaultTtlMs' = c.defaultTtlMs
    /\ UNCHANGED <<reinserts, now, store, timers, expired, hist, iter>>

\* the calls need the object the constructor returned
ConstructNext ==
    \/ Construct
    \/ construction.state = "ready" /\ Next

ConstructSpec == ConstructInit /\ [][ConstructNext]_vars

\* ---- an onExpire that calls the map back ----

ReentrantInit ==
    /\ construction = Ready
    /\ reinserts = TRUE
    /\ lazyEviction \in BOOLEAN
    /\ onExpire = TRUE
    /\ defaultTtlMs \in Ttls
    /\ now = 0
    /\ store = <<>>
    /\ timers = {}
    /\ expired = <<>>
    /\ hist = <<>>
    /\ iter = NoIter

ReentrantSpec == ReentrantInit /\ [][Next]_vars

\* ---- properties ----

Stored(k) == IndexOf(store, k) # 0
EntryOf(k) == store[IndexOf(store, k)]
Ids == 1..Len(hist)

\* entry id is evicted by a setTimeout callback in this step
TimerEvicts(id) == hist[id] = "stored" /\ hist'[id] = "timer"

\* the onExpire invocation an eviction of entry e makes
Notice(e) == [key |-> e.key, value |-> e.value, id |-> e.id]

\* the setTimeout callback of an insertion of k that was since overwritten runs
\* in this step (delete and clear only ever remove the stored entry's own timer)
StaleCallbackRuns(k) ==
    /\ Stored(k)
    /\ \E t \in timers \ timers' : t.key = k /\ t.id # EntryOf(k).timeout

\* C1: in EAGER mode set() on a key cancels the eviction an earlier set()
\* scheduled for it: when the callback of the overwritten insertion comes due
\* while the newer entry has not reached its own expiry, it neither removes
\* the entry nor invokes onExpire, so has(k) stays true and get(k) still
\* returns the newer value.
C1_ReinsertCancelsPriorEviction ==
    [][~lazyEviction =>
        \A k \in Keys :
            (StaleCallbackRuns(k) /\ now < EntryOf(k).expiresAt) =>
                /\ store' = store
                /\ expired' = expired
                /\ HasCall(M, k)'.result
                /\ GetCall(M, k)'.result = EntryOf(k).value]_vars

\* a set() call is this step: it alone creates an entry object
SetStep == Len(hist') = Len(hist) + 1

\* C2: in both modes, whatever the state, get(k) and has(k) made immediately
\* after set(k, v) or set(k, v, ttl) (same instant, no callback run in
\* between) return v and true.
C2_GetAfterSet ==
    \A k \in Keys, v \in Values, given \in BOOLEAN, ttlMs \in Ttls :
        LET m == SetCall(M, k, v, given, ttlMs)
        IN /\ GetCall(m, k).result = v
           /\ HasCall(m, k).result
           /\ GetCall(m, k).m = m

\* C2 witness: a set() with ttl 1 has just replaced an entry of the same key
\* in LAZY mode
C2_Witness ==
    /\ lazyEviction
    /\ Len(hist) = 2
    /\ hist[1] = "overwritten"
    /\ Len(store) = 1
    /\ store[1].id = 2
    /\ store[1].expiresAt = now + 1

\* C3: in EAGER mode an entry is evicted by a timer no earlier than its ttl
\* after its insertion, and the eviction invokes onExpire(k, v) exactly once
\* for it.
C3_EagerEvictsAtTtl ==
    [][~lazyEviction =>
        \A p \in 1..Len(store) :
            LET e == store[p]
            IN TimerEvicts(e.id) =>
                /\ now >= e.expiresAt
                /\ IndexOf(store', e.key) = 0
                /\ expired' = IF onExpire THEN Append(expired, Notice(e)) ELSE expired]_vars

\* entry id leaves the store in this step because an access found it expired
LazyEvicts(id) == hist[id] = "stored" /\ hist'[id] = "lazy"

\* C4: in LAZY mode no callback is ever scheduled, the clock advancing changes
\* nothing, an entry is removed as expired only by an access made at or after
\* its expiresAt, and has/get of a stored entry before its expiresAt return
\* true / its value and leave it stored.
C4_LazyNeverSpontaneous ==
    /\ [](lazyEviction =>
            /\ timers = {}
            /\ \A k \in Keys :
                 (Stored(k) /\ now < EntryOf(k).expiresAt) =>
                     /\ HasCall(M, k) = [m |-> M, result |-> TRUE]
                     /\ GetCall(M, k) = [m |-> M, result |-> EntryOf(k).value])
    /\ [][lazyEviction =>
            /\ (now' # now => store' = store /\ expired' = expired)
            /\ \A p \in 1..Len(store) :
                 LazyEvicts(store[p].id) => now >= store[p].expiresAt]_vars

\* C4 witness: LAZY mode, one entry was evicted by an access and another is
\* stored past its expiresAt, not yet observed
C4_Witness ==
    /\ lazyEviction
    /\ \E id \in Ids : hist[id] = "lazy"
    /\ \E k \in Keys : Stored(k) /\ now > EntryOf(k).expiresAt

\* C5: in LAZY mode get(k) and has(k) on a stored entry with now >= expiresAt
\* both remove it, invoke onExpire(k, value) once with the stored value and
\* return absent / false; they leave the same store and notifications, and a
\* second get/has returns absent / false and notifies nothing.
C5_LazyGetHasEvict ==
    lazyEviction =>
        \A k \in Keys :
            (Stored(k) /\ now >= EntryOf(k).expiresAt) =>
                LET g == GetCall(M, k)
                    h == HasCall(M, k)
                IN /\ g.result = Undefined
                   /\ h.result = FALSE
                   /\ h.m = g.m
                   /\ IndexOf(g.m.store, k) = 0
                   /\ Len(g.m.store) = Len(store) - 1
                   /\ g.m.expired = IF onExpire THEN Append(expired, Notice(EntryOf(k))) ELSE expired
                   /\ GetCall(g.m, k) = [m |-> g.m, result |-> Undefined]
                   /\ HasCall(g.m, k) = [m |-> g.m, result |-> FALSE]

\* C5 witness: an expired entry was evicted and notified by an access, and the
\* other key is stored and expired as well
C5_Witness ==
    /\ lazyEviction
    /\ onExpire
    /\ \E id \in Ids : hist[id] = "lazy" /\ Len(expired) = 1 /\ expired[1].id = id
    /\ \E k \in Keys : Stored(k) /\ now >= EntryOf(k).expiresAt

\* the number of onExpire invocations made for entry id
Notified(id) == Cardinality({n \in 1..Len(expired) : expired[n].id = id})

\* the stored entries that leave as expired in this step, in store order
Expiring == SelectSeq(store, LAMBDA e : hist[e.id] = "stored" /\ hist'[e.id] \in {"timer", "lazy"})

\* C6: every entry destroyed by expiration (timer or lazy detection) causes
\* exactly one onExpire invocation, carrying its key and value, when it is
\* destroyed; an entry destroyed by delete, clear or overwrite causes none,
\* and no entry is ever notified twice. (With no callback given nothing is
\* invoked.)
C6_OneNoticePerExpiration ==
    /\ [](\A id \in Ids :
            Notified(id) = IF onExpire /\ hist[id] \in {"timer", "lazy"} THEN 1 ELSE 0)
    /\ [][expired' = IF onExpire
                     THEN expired \o [n \in 1..Len(Expiring) |-> Notice(Expiring[n])]
                     ELSE expired]_vars

\* C6 witness: one entry was deleted and another evicted by a timer, with the
\* callback given
C6_Witness ==
    /\ onExpire
    /\ \E i, j \in Ids : hist[i] = "deleted" /\ hist[j] = "timer"
    /\ Len(expired) = 1

\* the notifications for key k
NoticesOf(log, k) == SelectSeq(log, LAMBDA x : x.key = k)

\* C7: delete(k) invokes no onExpire, and while k stays un-inserted nothing
\* that happens (clock, callbacks coming due, other calls) brings k back or
\* invokes onExpire for k; a callback scheduled by an insertion of k, when it
\* runs, leaves the whole container as it is.
C7_DeleteSilences ==
    /\ [](\A k \in Keys : DeleteCall(M, k, "deleted").m.expired = expired)
    /\ [][\A k \in Keys :
            (~Stored(k) /\ ~SetStep) =>
                /\ ~Stored(k)'
                /\ NoticesOf(expired, k)' = NoticesOf(expired, k)
                /\ (\E t \in timers \ timers' : t.key = k) =>
                       (store' = store /\ expired' = expired /\ hist' = hist)]_vars

\* C7 witness: EAGER mode, an entry that had replaced another of its key was
\* deleted, and the callback of the replaced insertion has since run
C7_Witness ==
    /\ ~lazyEviction
    /\ Len(hist) = 2
    /\ hist[1] = "overwritten"
    /\ hist[2] = "deleted"
    /\ timers = {}
    /\ expired = <<>>

\* C8: clear() leaves size 0 and has(k) false for every key, invokes onExpire
\* for nothing, and afterwards, until the next set(), no callback coming due
\* and no call puts an entry back or invokes onExpire.
C8_ClearSilences ==
    /\ [](LET c == ClearCall(M)
          IN /\ SizeCall(c).result = 0
             /\ \A k \in Keys : ~HasCall(c, k).result /\ GetCall(c, k).result = Undefined
             /\ c.expired = expired
             /\ \A t \in c.timers : \A p \in 1..Len(store) : t.id # store[p].timeout)
    /\ [][(store = <<>> /\ ~SetStep) => (store' = <<>> /\ expired' = expired)]_vars

\* C8 witness: EAGER mode, a key was set twice, then clear() ran and the
\* callback of the first insertion, which clear() does not cancel, has since run
C8_Witness ==
    /\ ~lazyEviction
    /\ onExpire
    /\ Len(hist) = 2
    /\ hist[1] = "overwritten"
    /\ hist[2] = "cleared"
    /\ timers = {}
    /\ expired = <<>>
    /\ store = <<>>

\* the entries of s that have not reached their expiresAt
Fresh(s) == SelectSeq(s, LAMBDA e : now < e.expiresAt)
Stale(s) == SelectSeq(s, LAMBDA e : now >= e.expiresAt)

\* C9: in LAZY mode reading size evicts every stored entry with
\* now >= expiresAt, invoking onExpire once for each, returns the number of
\* stored entries with now < expiresAt, and leaves no expired entry stored.
C9_LazySizeSweeps ==
    lazyEviction =>
        LET r == SizeCall(M)
        IN /\ r.result = Len(Fresh(store))
           /\ r.m.store = Fresh(store)
           /\ r.m.expired = IF onExpire
                            THEN expired \o [n \in 1..Len(Stale(store)) |-> Notice(Stale(store)[n])]
                            ELSE expired
           /\ r.m.timers = timers

\* C9 witness: LAZY mode, two entries of different keys were evicted as
\* expired and notified in store order, and nothing is left (one size read
\* does this)
C9_Witness ==
    /\ lazyEviction
    /\ onExpire
    /\ Len(hist) = 2
    /\ hist[1] = "lazy"
    /\ hist[2] = "lazy"
    /\ Len(expired) = 2
    /\ expired[1].id = 1
    /\ expired[1].key # expired[2].key
    /\ store = <<>>

\* the slots a suspended generator has not visited yet
Ahead == SubSeq(store, iter.idx + 1, Len(store))

\* what each kind yields for a sequence of entries
Yields(kind, es) == [n \in 1..Len(es) |-> Yield(kind, es[n])]

\* in LAZY mode no generator yields an entry with now >= expiresAt, neither
\* when run to completion nor when resumed after the clock has advanced: it
\* yields the entries ahead of it that have not expired, in store order
LazyYieldsFresh ==
    lazyEviction =>
        \A kind \in Kinds :
            /\ LET d == Drain(M, 0, kind)
               IN d.entries = Fresh(store) /\ d.out = Yields(kind, Fresh(store))
            /\ iter.active =>
                 LET r == NextCall(M, kind)
                 IN /\ r.done = (Fresh(Ahead) = <<>>)
                    /\ ~r.done => (r.entry = <<Head(Fresh(Ahead))>> /\ r.value = Yield(kind, r.entry[1]))

\* C10 as stated: no expired entry is yielded under LAZY mode, and under
\* EAGER mode exactly the entries with now < expiresAt are yielded.
C10_YieldsExactlyNonExpired ==
    /\ LazyYieldsFresh
    /\ ~lazyEviction =>
         \A kind \in Kinds : Drain(M, 0, kind).entries = Fresh(store)

\* C10 amended: no expired entry is yielded under LAZY mode; under EAGER mode
\* exactly the entries in the store are yielded, in store order, whether or
\* not their expiresAt has passed (an entry stays until its eviction runs).
C10_YieldsStoredOrFresh ==
    /\ LazyYieldsFresh
    /\ ~lazyEviction =>
         \A kind \in Kinds :
            /\ LET d == Drain(M, 0, kind)
               IN d.entries = store /\ d.out = Yields(kind, store) /\ d.m = M
            /\ iter.active =>
                 LET r == NextCall(M, kind)
                 IN /\ r.done = (Ahead = <<>>)
                    /\ ~r.done => (r.entry = <<Head(Ahead)>> /\ r.value = Yield(kind, r.entry[1]))

\* C10 witness: LAZY mode, a generator has yielded the first entry and is
\* suspended; the second entry has expired since
C10_Witness ==
    /\ lazyEviction
    /\ iter.active
    /\ iter.idx = 1
    /\ Len(store) = 2
    /\ ~IsExpired(store[1])
    /\ IsExpired(store[2])

\* the host runs every setTimeout callback due by instant t, earliest deadline
\* first and, among equal deadlines, in the order they were scheduled
RECURSIVE RunDue(_, _)
RunDue(m, t) ==
    LET due == {x \in m.timers : x.fireAt <= t} IN
    IF due = {} THEN m
    ELSE LET first == CHOOSE x \in due :
                          \A y \in due : x.fireAt < y.fireAt \/ (x.fireAt = y.fireAt /\ x.id <= y.id)
         IN RunDue(TimeoutCall([m EXCEPT !.timers = @ \ {first}], first), t)

\* set(k, v, ttl) gives the entry expiresAt = now + ttl, set(k, v) gives it
\* now + defaultTtlMs, and the entries of the other keys stay as they are
SetUsesOwnTtl ==
    \A k \in Keys, v \in Values, given \in BOOLEAN, ttlMs \in Ttls :
        LET m == SetCall(M, k, v, given, ttlMs)
            e == m.store[IndexOf(m.store, k)]
        IN /\ e.expiresAt = now + (IF given THEN ttlMs ELSE defaultTtlMs)
           /\ e.value = v
           /\ \A j \in Keys \ {k} :
                Stored(j) => (IndexOf(m.store, j) # 0 /\ m.store[IndexOf(m.store, j)] = EntryOf(j))

\* two keys are set at this instant with ttl a < b; at every instant t with
\* a <= t - now < b, once the callbacks due by t have run, the first is absent
\* and the second present (in LAZY mode: has() finds the first expired and the
\* second not)
ShortGoneLongStays ==
    \A k1 \in Keys, k2 \in Keys, a \in Ttls, b \in Ttls :
        (k1 # k2 /\ a < b) =>
            LET m == SetCall(SetCall(M, k1, "v1", TRUE, a), k2, "v2", TRUE, b)
            IN \A t \in (now + a)..(now + b - 1) :
                 IF lazyEviction
                 THEN /\ m.store[IndexOf(m.store, k1)].expiresAt <= t
                      /\ t < m.store[IndexOf(m.store, k2)].expiresAt
                 ELSE LET r == RunDue(m, t)
                      IN IndexOf(r.store, k1) = 0 /\ IndexOf(r.store, k2) # 0

\* C11: a ttl passed to set() overrides defaultTtlMs for that entry only
\* (expiresAt is insertion time + ttl, or + defaultTtlMs when ttl is omitted;
\* the default and the other entries are untouched), so of two entries
\* inserted together with ttl a < b, at any time in [a, b) after the callbacks
\* due have run the first is absent and the second present.
C11_PerEntryTtl ==
    /\ [](SetUsesOwnTtl /\ ShortGoneLongStays)
    /\ [][defaultTtlMs' = defaultTtlMs]_vars

\* C12: new ExpiringMap(options) with defaultTtlMs <= 0 throws and leaves no
\* map to call (nothing happens afterwards); with defaultTtlMs > 0 it gives an
\* empty map (size 0, no callback pending) with the given default, in LAZY
\* mode iff lazyEviction is true, so EAGER when it is omitted.
C12_ConstructionChecksTtl ==
    /\ [][(construction.state = "pending" /\ construction' # construction) =>
            LET o == construction.options IN
            IF o.defaultTtlMs <= 0
            THEN construction'.state = "thrown"
            ELSE /\ construction'.state = "ready"
                 /\ store' = <<>>
                 /\ timers' = {}
                 /\ SizeCall(M)'.result = 0
                 /\ defaultTtlMs' = o.defaultTtlMs
                 /\ lazyEviction' = (o.lazyEviction = "true")
                 /\ onExpire' = o.onExpire]_vars
    /\ [][construction.state # "thrown"]_vars
    /\ [](construction.state # "ready" =>
            store = <<>> /\ timers = {} /\ expired = <<>> /\ hist = <<>> /\ now = 0)

\* C12 witness: a construction has thrown
C12_Witness == construction.state = "thrown"

\* the setTimeout callbacks pending for key k
PendingFor(k) == {t \in timers : t.key = k}

\* C13: in EAGER mode at most one scheduled eviction is pending for any key
\* in any reachable state (set() on a key with a pending eviction cancels it
\* before scheduling the new one).
C13_OnePendingEvictionPerKey ==
    ~lazyEviction => \A k \in Keys : Cardinality(PendingFor(k)) <= 1

\* a key that is not in the store has no setTimeout callback pending
AbsentKeyHasNoTimer == \A k \in Keys : ~Stored(k) => PendingFor(k) = {}

\* C14: in EAGER mode no scheduled eviction is pending for k after delete(k),
\* none for any key after clear(), and so in every reachable state a key
\* absent from the store has none that could act on a later entry of that key.
C14_RemovalLeavesNoPendingEviction ==
    ~lazyEviction =>
        /\ \A k \in Keys :
             \A t \in DeleteCall(M, k, "deleted").m.timers : t.key # k
        /\ ClearCall(M).timers = {}
        /\ AbsentKeyHasNoTimer

\* C15: in EAGER mode get(k) and has(k) return the stored value / true
\* whenever k is in the store, whatever the clock says (also at or after
\* expiresAt, the eviction not having run), and change nothing; an entry
\* leaves the store only when a setTimeout callback runs or delete, clear or
\* an overwriting set is called.
C15_EagerReadsIgnoreClock ==
    /\ [](~lazyEviction =>
            \A k \in Keys :
                /\ HasCall(M, k) = [m |-> M, result |-> Stored(k)]
                /\ GetCall(M, k) =
                     [m |-> M, result |-> IF Stored(k) THEN EntryOf(k).value ELSE Undefined])
    /\ [][~lazyEviction =>
            \A id \in Ids :
                (hist[id] = "stored" /\ hist'[id] # "stored") =>
                    /\ hist'[id] \in {"timer", "deleted", "cleared", "overwritten"}
                    /\ now' = now
                    /\ hist'[id] = "timer" => timers' # timers
                    /\ hist'[id] = "overwritten" => SetStep]_vars

\* C15 witness: EAGER mode, an entry is stored past its expiresAt, its
\* eviction still pending
C15_Witness ==
    /\ ~lazyEviction
    /\ \E k \in Keys :
         /\ Stored(k)
         /\ now > EntryOf(k).expiresAt
         /\ \E t \in timers : t.id = EntryOf(k).timeout

\* C16: in LAZY mode set() on a key that holds an entry removes that entry
\* without invoking onExpire, whether or not it has expired unobserved, and
\* stores a new entry object with the new value and expiresAt computed from
\* the current instant.
C16_LazyOverwriteIsSilent ==
    lazyEviction =>
        \A k \in Keys, v \in Values, given \in BOOLEAN, ttlMs \in Ttls :
            Stored(k) =>
                LET old == EntryOf(k)
                    m == SetCall(M, k, v, given, ttlMs)
                    new == m.store[IndexOf(m.store, k)]
                IN /\ m.expired = expired
                   /\ m.hist[old.id] = "overwritten"
                   /\ Len(m.store) = Len(store)
                   /\ new.id = Len(hist) + 1
                   /\ new.value = v
                   /\ new.expiresAt = now + (IF given THEN ttlMs ELSE defaultTtlMs)
                   /\ m.hist[new.id] = "stored"

\* C16 witness: LAZY mode with a callback given; a set() has overwritten an
\* entry unnoticed, and the stored entry has now expired unobserved
C16_Witness ==
    /\ lazyEviction
    /\ onExpire
    /\ hist = <<"overwritten", "stored">>
    /\ expired = <<>>
    /\ Len(store) = 1
    /\ now >= store[1].expiresAt

\* the (value, key) arguments forEach passes for a sequence of entries
Visits(es) == [n \in 1..Len(es) |-> <<es[n].value, es[n].key>>]

\* C17: iteration order is the same in both modes: with no stored entry
\* expired, the same set() (overwriting or not) or delete() made on this map
\* and on a map of the other mode holding the same entries in the same order
\* leaves keys(), values(), entries() and forEach producing the same sequence.
\* (Both modes start empty, so this is the claim for call sequences of any
\* length; with nothing expired a map of either mode yields all its entries.)
C17_SameOrderInBothModes ==
    (\A p \in 1..Len(store) : ~IsExpired(store[p])) =>
        /\ \A k \in Keys, v \in Values, given \in BOOLEAN, ttlMs \in Ttls :
             LET mine == SetCall(M, k, v, given, ttlMs)
                 other == SetCallIn(~lazyEviction, M, k, v, given, ttlMs)
             IN /\ \A kind \in Kinds : Drain(mine, 0, kind).out = Yields(kind, other.store)
                /\ ForEachCall(mine).calls = Visits(other.store)
        /\ \A k \in Keys :
             LET after == DeleteCall(M, k, "deleted").m
             IN /\ \A kind \in Kinds : Drain(after, 0, kind).out = Yields(kind, after.store)
                /\ ForEachCall(after).calls = Visits(after.store)

\* the entry stored under key k in Map s
Under(s, k) == s[IndexOf(s, k)]

\* C18: onExpire(k, v) is invoked after the entry of k has been removed: a
\* callback that asks has(k) is told false, and the entry it then inserts for
\* k is still stored, as the newest entry, when the evicting call or timer
\* callback is over; in LAZY mode the get/has that found the expiry returns
\* absent / false all the same.
C18_CallbackRunsAfterRemoval ==
    /\ [][reinserts =>
            \A n \in 1..Len(Expiring) :
                n <= MaxSets - Len(hist) =>
                    LET e == Expiring[n] IN
                    /\ IndexOf(store', e.key) # 0
                    /\ Under(store', e.key).id = Len(hist) + n
                    /\ Under(store', e.key).value = e.value
                    /\ hist'[Len(hist) + n] = "stored"]_vars
    /\ []((reinserts /\ lazyEviction) =>
            \A k \in Keys :
                (Stored(k) /\ IsExpired(EntryOf(k))) =>
                    LET g == GetCall(M, k)
                        h == HasCall(M, k)
                    IN /\ g.result = Undefined
                       /\ h.result = FALSE
                       /\ h.m = g.m
                       /\ Len(hist) < MaxSets =>
                            /\ IndexOf(g.m.store, k) # 0
                            /\ Under(g.m.store, k).id = Len(hist) + 1)

\* C18 witness: the only entry a caller stored has expired, and the entry the
\* callback inserted for its key is in the store
C18_Witness ==
    /\ reinserts
    /\ Len(hist) = 2
    /\ hist[1] \in {"timer", "lazy"}
    /\ hist[2] = "stored"
    /\ Len(expired) = 1
    /\ expired[1].id = 1
    /\ Len(store) = 1
    /\ store[1].id = 2
    /\ store[1].key = expired[1].key

\* the onExpire invocations made in this step
NewNotices == SubSeq(expired', Len(expired) + 1, Len(expired'))

\* C19: the value passed to onExpire(k, value) is the value stored under k
\* when the eviction happens: every invocation carries the key, value and
\* identity of an entry that was in the store when the step began and leaves
\* it as expired in that step, and no invocation is ever made for an entry
\* that a later set() replaced (in EAGER mode too, where the callback of the
\* replaced insertion still runs).
C19_NotifiesStoredValue ==
    /\ [][\A n \in 1..Len(NewNotices) :
            LET x == NewNotices[n] IN
            /\ Stored(x.key)
            /\ x = Notice(EntryOf(x.key))
            /\ hist'[x.id] \in {"timer", "lazy"}]_vars
    /\ [](\A n \in 1..Len(expired) : hist[expired[n].id] # "overwritten")

\* C19 witness: EAGER mode, a key was set twice and the callback of the first
\* insertion has evicted the second entry and reported that entry; the second
\* entry's own callback is still pending
C19_Witness ==
    /\ ~lazyEviction
    /\ hist = <<"overwritten", "timer">>
    /\ Len(expired) = 1
    /\ expired[1].id = 2
    /\ \E t \in timers : t.id = 2

====
